---- MODULE Spec2Model ----
(***************************************************************************)
(* RoluATM withdrawal coordination: the cloud-side route handlers          *)
(* (initiate-withdrawal, withdraw, kiosk completion, auth, balance) and    *)
(* the collaborators they call (ledger store, payment monitor, PIN         *)
(* authority, kiosk).  Money is counted in cents.                          *)
(***************************************************************************)
EXTENDS Integers, Sequences, FiniteSets, TLC

VARIABLES
    userExists,     \* the account row exists (created at first sign-in)
    balance,        \* users.balance of the account, in cents
    withdrawals,    \* withdrawals table: sequence of rows, id = index
    watches,        \* watches[w]: running monitorTransaction tasks of w
    kioskAuth,      \* kioskAuth[w]: the kiosk's local copy of w's authorization
    dispensed,      \* dispensed[w]: times the dispenser was actuated for w
    transactions,   \* transactions table + the /api/withdraw request serving each row
    now,            \* wall clock
    otherWrites,    \* a writer other than /api/withdraw has written the balance
    kioskHealth,    \* health record of the kiosk: online flag, inventory in cents
    auth,           \* sign-in nonces: issued, the browser's siwe cookie, accepted
    app             \* the kiosk frontend (App component) and its pending callbacks

vars == <<userExists, balance, withdrawals, watches, kioskAuth, dispensed,
          transactions, now, otherWrites, kioskHealth, auth, app>>

-----------------------------------------------------------------------------
(* Bounds of the model *)
MaxWatches == 2
MaxTransactions == 2
MaxTime == 2
MaxTasks == 2
MaxNonces == 4
MaxAccepts == 2
MaxSessions == 2

(* Program constants, in cents *)
InitialBalance == 15050
ReSignInBalance == 17525
DailyLimit == 50000
PinWindow == 1
FullInventory == 20000

TxIds == {"tx_a", "tx_b"}       \* payment references (transactionId)
Amounts == {-5000, 0, 5000, 10000, 60000}     \* request bodies of /api/withdraw
InitiateAmounts == {-5000, 0, 10000, 60000}   \* request bodies of /api/initiate-withdrawal
FreshBalances == {5000}
WalletBalances == {60000}        \* a wallet that holds more than the daily limit
LimitAmounts == {30000}          \* a request below the limit, above half of it
Kiosks == {"kiosk_001"}              \* kiosks an authorization is delivered to
OtherKiosks == {"kiosk_002"}         \* kioskId of a report from another kiosk
NoKiosk == "none"
Pins == {123456}
Inventories == {5000, 10000}     \* inventory a heartbeat reports, in cents
NoPin == 0
NoNonce == 0
Nonces == 1..MaxNonces           \* nonces the nonce endpoint hands out, in order
Callers == {"anonymous", "owner", "other"}   \* who sends a status request

Terminal == {"completed", "failed", "expired"}
Status == {"pending", "confirmed", "pin_sent", "dispensing"} \cup Terminal

WIds == DOMAIN withdrawals
TIds == DOMAIN transactions

-----------------------------------------------------------------------------
(* Ledger store *)

RECURSIVE FindByTx(_, _)
FindByTx(tx, i) ==
    IF i = 0 THEN 0
    ELSE IF withdrawals[i].transaction_id = tx THEN i
    ELSE FindByTx(tx, i - 1)

\* getWithdrawal by payment reference: the row id, or 0
getWithdrawalByTx(tx) == FindByTx(tx, Len(withdrawals))

\* debited: the amount is currently taken out of the balance on behalf of this
\* withdrawal (its reservation, or the permanent debit it became)
NewWithdrawal(tx, amount) ==
    [transaction_id |-> tx, amount |-> amount, status |-> "pending",
     pin |-> NoPin, pin_expires_at |-> 0, kiosk_id |-> NoKiosk, debited |-> FALSE]

\* createWithdrawal: the payment reference is the idempotency key
createWithdrawal(tx, amount) ==
    IF getWithdrawalByTx(tx) # 0 THEN withdrawals
    ELSE Append(withdrawals, NewWithdrawal(tx, amount))

\* updateWithdrawal(id, fields): writes the given fields of row id
updateWithdrawal(w, status, kiosk) ==
    [withdrawals EXCEPT ![w].status = status, ![w].kiosk_id = kiosk]

RECURSIVE SumAmounts(_, _)
SumAmounts(S, i) ==
    IF i = 0 THEN 0
    ELSE (IF withdrawals[i].status \in S THEN withdrawals[i].amount ELSE 0)
         + SumAmounts(S, i - 1)

\* amounts earmarked by confirmed withdrawals and not yet taken from the balance
Earmarked == SumAmounts({"confirmed"}, Len(withdrawals))

\* the App component after its first render: no status, no session, nothing
\* in flight
AppInit ==
    [state |-> "welcome", status |-> "none", session |-> 0, made |-> 0,
     verify |-> 0, withdraw |-> 0, timers |-> {}, health |-> "idle"]

-----------------------------------------------------------------------------
Init ==
    /\ userExists = FALSE
    /\ balance = 0
    /\ withdrawals = <<>>
    /\ watches = <<>>
    /\ kioskAuth = <<>>
    /\ dispensed = <<>>
    /\ transactions = <<>>
    /\ now = 0
    /\ otherWrites = FALSE
    /\ kioskHealth = [online |-> TRUE, inventory |-> FullInventory]
    /\ auth = [issued |-> 0, jar |-> NoNonce, accepted |-> [n \in Nonces |-> 0]]
    /\ app = AppInit

-----------------------------------------------------------------------------
(* GET /api/nonce *)

\* a fresh nonce is generated and set as the siwe cookie of the browser
NonceGet ==
    /\ auth.issued < MaxNonces
    /\ auth' = [auth EXCEPT !.issued = @ + 1, !.jar = auth.issued + 1]
    /\ UNCHANGED <<app, kioskHealth, userExists, balance, withdrawals, watches,
                   kioskAuth, dispensed, transactions, now, otherWrites>>

(* POST /api/auth *)

\* get or create the user; an existing user's balance is overwritten
UserUpsert ==
    IF ~userExists
    THEN /\ userExists' = TRUE
         /\ balance' = InitialBalance
         /\ UNCHANGED otherWrites
    ELSE /\ balance' = ReSignInBalance
         /\ otherWrites' = TRUE
         /\ UNCHANGED userExists

\* a sign-in that passes the nonce and signature checks
SignIn ==
    /\ UserUpsert
    /\ UNCHANGED <<auth, app, kioskHealth, withdrawals, watches, kioskAuth,
                   dispensed, transactions, now>>

\* the HTTP status for a request with nonce `nonce` in its body and `cookie` in
\* its siwe cookie header, whose signed payload verifies (siweValid) or not
AuthCode(nonce, cookie, siweValid) ==
    IF nonce = NoNonce THEN 400
    ELSE IF nonce # cookie THEN 401
    ELSE IF ~siweValid THEN 401
    ELSE 200

\* the whole handler: checks, user upsert, auth-token cookie, and the deletion
\* of the siwe cookie in the response (the browser's jar is emptied)
AuthHandle(nonce, cookie, siweValid) ==
    /\ IF AuthCode(nonce, cookie, siweValid) # 200
       THEN UNCHANGED <<auth, userExists, balance, otherWrites>>
       ELSE /\ auth.accepted[nonce] < MaxAccepts
            /\ UserUpsert
            /\ auth' = [auth EXCEPT !.jar = NoNonce, !.accepted[nonce] = @ + 1]
    /\ UNCHANGED <<app, kioskHealth, withdrawals, watches, kioskAuth,
                   dispensed, transactions, now>>

\* the browser posts: its cookie header is its jar; a signed payload verifies
\* only for a nonce the endpoint has issued
AuthPost(nonce, siweValid) ==
    /\ siweValid => nonce \in 1..auth.issued
    /\ AuthHandle(nonce, auth.jar, siweValid)

\* an accepted request is sent again as it was: same body, same cookie header
AuthReplay(nonce) ==
    /\ auth.accepted[nonce] > 0
    /\ AuthHandle(nonce, nonce, TRUE)

(* GET /api/balance *)
BalanceGet(fresh) ==
    /\ userExists
    /\ balance' = fresh
    /\ otherWrites' = TRUE
    /\ UNCHANGED <<auth, app, kioskHealth, userExists, withdrawals, watches, kioskAuth, dispensed,
                   transactions, now>>

-----------------------------------------------------------------------------
(* POST /api/initiate-withdrawal *)

\* variant: the handler without its checks of a missing or non-positive amount
InitiateCodeNoAmountCheck(tx, amount) ==
    IF ~userExists THEN 401
    ELSE IF amount > DailyLimit THEN 400
    ELSE IF balance < amount THEN 400
    ELSE 200

\* the HTTP status the handler answers with
InitiateCode(tx, amount) ==
    IF ~userExists THEN 401
    ELSE IF amount = 0 THEN 400
    ELSE IF amount <= 0 THEN 400
    ELSE IF amount > DailyLimit THEN 400
    ELSE IF balance < amount THEN 400
    ELSE 200

\* the withdrawalId of the response body (0: an error body without one)
InitiateResponseId(tx, amount) ==
    IF InitiateCode(tx, amount) # 200 THEN 0
    ELSE IF getWithdrawalByTx(tx) # 0 THEN getWithdrawalByTx(tx)
    ELSE Len(withdrawals) + 1

\* variant: the handler inserts a row on every call, without the lookup by
\* payment reference
InitiateAdmitAlwaysInsert(tx, amount) ==
    /\ Len(withdrawals) + Len(transactions) < MaxTasks
    /\ withdrawals' = Append(withdrawals, NewWithdrawal(tx, amount))
    /\ watches' = Append(watches, 1)
    /\ kioskAuth' = Append(kioskAuth, "none")
    /\ dispensed' = Append(dispensed, 0)
    /\ UNCHANGED <<auth, app, kioskHealth, userExists, balance, transactions, now, otherWrites>>

InitiateAdmit(tx, amount) ==
    LET old == getWithdrawalByTx(tx)
    IN  /\ withdrawals' = createWithdrawal(tx, amount)
        /\ IF old # 0
           THEN /\ watches[old] < MaxWatches
                /\ watches' = [watches EXCEPT ![old] = @ + 1]
                /\ UNCHANGED <<kioskAuth, dispensed>>
           ELSE /\ Len(withdrawals) + Len(transactions) < MaxTasks
                /\ watches' = Append(watches, 1)
                /\ kioskAuth' = Append(kioskAuth, "none")
                /\ dispensed' = Append(dispensed, 0)
        /\ UNCHANGED <<auth, app, kioskHealth, userExists, balance, transactions, now, otherWrites>>

InitiateWithdrawal(tx, amount) ==
    IF InitiateCode(tx, amount) # 200 THEN UNCHANGED vars
    ELSE InitiateAdmit(tx, amount)

-----------------------------------------------------------------------------
(* GET /api/withdrawal-status/[id] *)

NoData == [code |-> 0, status |-> "none", pin |-> NoPin]

\* variant: the handler without its ownership check
StatusResponseNoOwnerCheck(caller, id) ==
    IF caller = "anonymous" THEN [NoData EXCEPT !.code = 401]
    ELSE IF id \notin WIds THEN [NoData EXCEPT !.code = 404]
    ELSE [code |-> 200, status |-> withdrawals[id].status,
          pin |-> IF withdrawals[id].status = "pin_sent"
                  THEN withdrawals[id].pin ELSE NoPin]

\* the response: HTTP status, and the status and pin fields of the body
StatusResponse(caller, id) ==
    IF caller = "anonymous" THEN [NoData EXCEPT !.code = 401]
    ELSE IF id \notin WIds THEN [NoData EXCEPT !.code = 404]
    ELSE IF caller # "owner" THEN [NoData EXCEPT !.code = 403]
    ELSE [code |-> 200, status |-> withdrawals[id].status,
          pin |-> IF withdrawals[id].status = "pin_sent"
                  THEN withdrawals[id].pin ELSE NoPin]

\* the handler reads one record and writes nothing
StatusGet(caller, id) == UNCHANGED vars

-----------------------------------------------------------------------------
(* Payment confirmation monitor and the coordinator's handling of its event *)

\* pending -> confirmed | failed on a payment-confirmed event (funds guard)
ConfirmPayment(w) ==
    IF balance - Earmarked >= withdrawals[w].amount
    THEN [withdrawals EXCEPT ![w].status = "confirmed"]
    ELSE [withdrawals EXCEPT ![w].status = "failed"]

\* one watch task of w emits its terminal event; the coordinator applies it only
\* to a pending withdrawal, and a withdrawal that leaves pending this way has
\* all its watches torn down
MonitorEvent(w, ev) ==
    /\ watches[w] > 0
    /\ IF withdrawals[w].status = "pending"
       THEN /\ withdrawals' = IF ev = "confirmed" THEN ConfirmPayment(w)
                              ELSE [withdrawals EXCEPT ![w].status = "failed"]
            /\ watches' = [watches EXCEPT ![w] = 0]
       ELSE /\ watches' = [watches EXCEPT ![w] = @ - 1]
            /\ UNCHANGED withdrawals
    /\ UNCHANGED <<auth, app, kioskHealth, userExists, balance, kioskAuth, dispensed,
                   transactions, now, otherWrites>>

\* confirmed -> authorized (status pin_sent): reserve the amount, mint the PIN,
\* deliver it to kiosk k; a reservation the balance cannot cover fails the
\* withdrawal without touching the balance.  The clock bound leaves room for
\* the PIN's expiry time.
Authorize(w, k, p) ==
    /\ withdrawals[w].status = "confirmed"
    /\ now + PinWindow <= MaxTime
    /\ kioskHealth.online /\ kioskHealth.inventory >= withdrawals[w].amount
    /\ IF balance >= withdrawals[w].amount
       THEN /\ balance' = balance - withdrawals[w].amount
            /\ withdrawals' = [withdrawals EXCEPT
                   ![w].status = "pin_sent", ![w].debited = TRUE,
                   ![w].pin = p, ![w].pin_expires_at = now + PinWindow,
                   ![w].kiosk_id = k]
            /\ kioskAuth' = [kioskAuth EXCEPT ![w] = "held"]
            /\ otherWrites' = TRUE
       ELSE /\ withdrawals' = [withdrawals EXCEPT ![w].status = "failed"]
            /\ UNCHANGED <<balance, kioskAuth, otherWrites>>
    /\ UNCHANGED <<auth, app, kioskHealth, userExists, watches, dispensed, transactions, now>>

\* variant: the sweep marks the withdrawal expired and leaves its reservation
\* and its PIN in place
ExpireSweepStatusOnly(w) ==
    /\ withdrawals[w].status = "pin_sent"
    /\ now >= withdrawals[w].pin_expires_at
    /\ withdrawals' = [withdrawals EXCEPT ![w].status = "expired"]
    /\ UNCHANGED <<auth, app, kioskHealth, userExists, balance, watches, kioskAuth, dispensed,
                   transactions, now, otherWrites>>

\* authorized -> expired by the sweep: reservation reversed, PIN erased
ExpireSweep(w) ==
    /\ withdrawals[w].status = "pin_sent"
    /\ now >= withdrawals[w].pin_expires_at
    /\ withdrawals' = [withdrawals EXCEPT
           ![w].status = "expired", ![w].debited = FALSE, ![w].pin = NoPin]
    /\ balance' = IF withdrawals[w].debited
                  THEN balance + withdrawals[w].amount ELSE balance
    /\ otherWrites' = TRUE
    /\ UNCHANGED <<auth, app, kioskHealth, userExists, watches, kioskAuth, dispensed,
                   transactions, now>>

-----------------------------------------------------------------------------
(* Kiosk *)

\* the operator enters the PIN: the kiosk validates its local copy (held, not
\* consumed, not expired), acknowledges, and actuates the dispenser
KioskRedeem(w) ==
    /\ kioskAuth[w] = "held"
    /\ now < withdrawals[w].pin_expires_at
    /\ kioskAuth' = [kioskAuth EXCEPT ![w] = "consumed"]
    /\ dispensed' = [dispensed EXCEPT ![w] = @ + 1]
    /\ withdrawals' = IF withdrawals[w].status = "pin_sent"
                      THEN [withdrawals EXCEPT ![w].status = "dispensing"]
                      ELSE withdrawals
    /\ UNCHANGED <<auth, app, kioskHealth, userExists, balance, watches, transactions, now,
                   otherWrites>>

(* POST kiosk completion *)
KioskCompletion(w, k, success) ==
    /\ withdrawals' = IF success THEN updateWithdrawal(w, "completed", k)
                      ELSE updateWithdrawal(w, "failed", k)
    /\ UNCHANGED <<auth, app, kioskHealth, userExists, balance, watches, kioskAuth, dispensed,
                   transactions, now, otherWrites>>

\* heartbeat of the kiosk: the health record is upserted
KioskHeartbeat(inventory) ==
    /\ kioskHealth' = [online |-> TRUE, inventory |-> inventory]
    /\ UNCHANGED <<auth, app, userExists, balance, withdrawals, watches, kioskAuth,
                   dispensed, transactions, now, otherWrites>>

\* the last heartbeat has become older than the liveness window
KioskStale ==
    /\ kioskHealth.online
    /\ kioskHealth' = [kioskHealth EXCEPT !.online = FALSE]
    /\ UNCHANGED <<auth, app, userExists, balance, withdrawals, watches, kioskAuth,
                   dispensed, transactions, now, otherWrites>>

Tick ==
    /\ now < MaxTime
    /\ now' = now + 1
    /\ UNCHANGED <<auth, app, kioskHealth, userExists, balance, withdrawals, watches, kioskAuth,
                   dispensed, transactions, otherWrites>>

-----------------------------------------------------------------------------
(* Kiosk frontend: App.tsx and WelcomeScreen.tsx.                          *)
(* app.status is the last health status: none (null), ready (healthy, coin *)
(* mechanism connected), healthy (mechanism not connected), degraded,      *)
(* offline.  app.session is the id of the current session (0: null);       *)
(* app.verify / app.withdraw the session of the verification / withdraw    *)
(* call in flight; app.timers the sessions whose auto-reset timer is       *)
(* armed; app.health the state a running checkHealth closed over.          *)

AppFrame ==
    UNCHANGED <<userExists, balance, withdrawals, watches, kioskAuth, dispensed,
                transactions, now, otherWrites, kioskHealth, auth>>

\* WelcomeScreen: isReady
IsReady(status) == status = "ready"

\* WelcomeScreen: the number of onStart calls a click on the start button makes
\* (the button is disabled unless isReady)
OnStartCalls(status) == IF IsReady(status) THEN 1 ELSE 0

\* a click on the start button; onStart is setState('amount-select')
ClickStart ==
    /\ app.state = "welcome"
    /\ app' = IF OnStartCalls(app.status) = 1
              THEN [app EXCEPT !.state = "amount-select"] ELSE app
    /\ AppFrame

handleAmountSelect ==
    /\ app.state = "amount-select"
    /\ app.made < MaxSessions
    /\ app' = [app EXCEPT !.made = @ + 1, !.session = app.made + 1,
                          !.state = "world-id-verify"]
    /\ AppFrame

\* onCancel / onContinue / onRetry of the screens that offer it
handleReset ==
    /\ \/ app.state \in {"amount-select", "error"}
       \/ app.state \in {"world-id-verify", "complete"} /\ app.session # 0
    /\ app' = [app EXCEPT !.state = "welcome", !.session = 0]
    /\ AppFrame

\* handleWorldIDVerification up to its fetch
VerifyStart ==
    /\ app.state = "world-id-verify" /\ app.session # 0
    /\ app.verify = 0
    /\ app' = [app EXCEPT !.state = "processing", !.verify = app.session]
    /\ AppFrame

\* the verification fetch settles; on success handleWithdrawal runs up to its
\* api.withdraw call
VerifyReturn(ok) ==
    /\ app.verify # 0
    /\ IF ok
       THEN /\ app.withdraw = 0
            /\ app' = [app EXCEPT !.session = app.verify, !.state = "dispensing",
                                  !.withdraw = app.verify, !.verify = 0]
       ELSE app' = [app EXCEPT !.state = "error", !.verify = 0]
    /\ AppFrame

\* api.withdraw settles: success, a failure, or an offline error
WithdrawReturn(result) ==
    /\ app.withdraw # 0
    /\ app' = IF result = "success"
              THEN [app EXCEPT !.session = app.withdraw, !.state = "complete",
                               !.timers = @ \cup {app.withdraw}, !.withdraw = 0]
              ELSE IF result = "offline"
              THEN [app EXCEPT !.state = "offline", !.withdraw = 0]
              ELSE [app EXCEPT !.state = "error", !.withdraw = 0]
    /\ AppFrame

\* the 10 second auto-reset timer armed at the completion of session s fires
TimerFire(s) ==
    /\ s \in app.timers
    /\ app' = [app EXCEPT !.state = "welcome", !.session = 0, !.timers = @ \ {s}]
    /\ AppFrame

\* checkHealth up to its api.getHealth call; it closes over the current state
HealthStart ==
    /\ app.health = "idle"
    /\ app' = [app EXCEPT !.health = app.state]
    /\ AppFrame

\* api.getHealth settles: with a status, with an offline error, with another
\* error
HealthReturn(result) ==
    /\ app.health # "idle"
    /\ app' = IF result = "throwOffline"
              THEN [app EXCEPT !.state = "offline", !.health = "idle"]
              ELSE IF result = "throwOther"
              THEN [app EXCEPT !.status = "none", !.health = "idle"]
              ELSE [app EXCEPT
                      !.status = result, !.health = "idle",
                      !.state = IF \/ app.health = "offline" /\ result # "offline"
                                   \/ app.health = "error" /\ result \in {"ready", "healthy"}
                                THEN "welcome" ELSE @]
    /\ AppFrame

-----------------------------------------------------------------------------
(* POST /api/withdraw *)

\* variant: the failure branch marks the transaction failed before it refunds
FailStepsSwapped == <<"markfail", "refund">>

\* the writes of the failure branch, in program order
FailSteps == <<"refund", "markfail">>

\* the step that follows step pc in the failure branch
AfterFailStep(pc) ==
    IF FailSteps[1] = pc THEN FailSteps[2] ELSE "done"

NewTransaction(amount) ==
    [amount |-> amount, snapshot |-> balance, status |-> "processing",
     pc |-> "decrement", actuated |-> 0, refunded |-> FALSE]

\* variant: the handler without its funds check
WithdrawBeginNoFundsCheck(amount) ==
    /\ Len(transactions) < MaxTransactions
    /\ Len(withdrawals) + Len(transactions) < MaxTasks
    /\ IF \/ amount = 0 \/ amount <= 0 \/ amount > DailyLimit
          \/ ~userExists
       THEN UNCHANGED transactions
       ELSE transactions' = Append(transactions, NewTransaction(amount))
    /\ UNCHANGED <<auth, app, kioskHealth, userExists, balance, withdrawals, watches, kioskAuth,
                   dispensed, now, otherWrites>>

\* the HTTP status the handler answers with before it creates the transaction
\* (200: it goes on to createTransaction)
WithdrawCode(amount) ==
    IF amount = 0 \/ amount <= 0 THEN 400
    ELSE IF amount > DailyLimit THEN 400
    ELSE IF ~userExists THEN 404
    ELSE IF balance < amount THEN 400
    ELSE 200

\* validation, getUserById, funds check, createTransaction
WithdrawBegin(amount) ==
    /\ Len(transactions) < MaxTransactions
    /\ Len(withdrawals) + Len(transactions) < MaxTasks
    /\ IF WithdrawCode(amount) # 200
       THEN UNCHANGED transactions
       ELSE transactions' = Append(transactions, NewTransaction(amount))
    /\ UNCHANGED <<auth, app, kioskHealth, userExists, balance, withdrawals, watches, kioskAuth,
                   dispensed, now, otherWrites>>

\* updateUserBalance(user.id, user.balance - amount)
WithdrawDecrement(t) ==
    /\ transactions[t].pc = "decrement"
    /\ balance' = transactions[t].snapshot - transactions[t].amount
    /\ transactions' = [transactions EXCEPT ![t].pc = "dispense"]
    /\ UNCHANGED <<auth, app, kioskHealth, userExists, withdrawals, watches, kioskAuth,
                   dispensed, now, otherWrites>>

\* triggerCashDispense: the request is posted to the configured kiosk URL.
\* actuated: the dispenser was actuated; responseOk: the fetch resolved with a
\* 2xx status (response.ok); bodySuccess: the response body reports success
\* (a kiosk reports success only if it dispensed).  The result the handler
\* sees is response.ok.
WithdrawDispense(t, actuated, responseOk, bodySuccess) ==
    /\ transactions[t].pc = "dispense"
    /\ bodySuccess => (actuated /\ responseOk)
    /\ transactions' = [transactions EXCEPT
           ![t].actuated = IF actuated THEN @ + 1 ELSE @,
           ![t].pc = IF responseOk THEN "complete" ELSE FailSteps[1]]
    /\ UNCHANGED <<auth, app, kioskHealth, userExists, balance, withdrawals, watches, kioskAuth,
                   dispensed, now, otherWrites>>

\* updateTransactionStatus(transaction.id, 'completed')
WithdrawComplete(t) ==
    /\ transactions[t].pc = "complete"
    /\ transactions' = [transactions EXCEPT ![t].status = "completed", ![t].pc = "done"]
    /\ UNCHANGED <<auth, app, kioskHealth, userExists, balance, withdrawals, watches, kioskAuth,
                   dispensed, now, otherWrites>>

\* updateUserBalance(user.id, user.balance)
WithdrawRefund(t) ==
    /\ transactions[t].pc = "refund"
    /\ balance' = transactions[t].snapshot
    /\ transactions' = [transactions EXCEPT
           ![t].refunded = TRUE, ![t].pc = AfterFailStep("refund")]
    /\ UNCHANGED <<auth, app, kioskHealth, userExists, withdrawals, watches, kioskAuth,
                   dispensed, now, otherWrites>>

\* updateTransactionStatus(transaction.id, 'failed')
WithdrawMarkFailed(t) ==
    /\ transactions[t].pc = "markfail"
    /\ transactions' = [transactions EXCEPT
           ![t].status = "failed", ![t].pc = AfterFailStep("markfail")]
    /\ UNCHANGED <<auth, app, kioskHealth, userExists, balance, withdrawals, watches, kioskAuth,
                   dispensed, now, otherWrites>>

\* a storage call rejects: the catch block answers 500 and writes nothing
WithdrawThrow(t) ==
    /\ transactions[t].pc \in {"decrement", "complete", "refund", "markfail"}
    /\ transactions' = [transactions EXCEPT ![t].pc = "done"]
    /\ UNCHANGED <<auth, app, kioskHealth, userExists, balance, withdrawals, watches, kioskAuth,
                   dispensed, now, otherWrites>>

-----------------------------------------------------------------------------
Next ==
    \/ SignIn
    \/ \E fresh \in FreshBalances : BalanceGet(fresh)
    \/ \E tx \in TxIds, a \in InitiateAmounts : InitiateWithdrawal(tx, a)
    \/ \E caller \in Callers, id \in 1..MaxTasks : StatusGet(caller, id)
    \/ \E w \in WIds, ev \in {"confirmed", "rejected", "timedOut"} : MonitorEvent(w, ev)
    \/ \E w \in WIds, k \in Kiosks, p \in Pins : Authorize(w, k, p)
    \/ \E w \in WIds : ExpireSweep(w)
    \/ \E w \in WIds : KioskRedeem(w)
    \/ \E w \in WIds, k \in Kiosks, success \in BOOLEAN : KioskCompletion(w, k, success)
    \/ Tick
    \/ \E a \in Amounts : WithdrawBegin(a)
    \/ \E t \in TIds : WithdrawDecrement(t)
    \/ \E t \in TIds, actuated, responseOk, bodySuccess \in BOOLEAN :
           WithdrawDispense(t, actuated, responseOk, bodySuccess)
    \/ \E t \in TIds : WithdrawComplete(t)
    \/ \E t \in TIds : WithdrawRefund(t)
    \/ \E t \in TIds : WithdrawMarkFailed(t)
    \/ \E t \in TIds : WithdrawThrow(t)

NextCoord ==
    \/ SignIn
    \/ \E fresh \in FreshBalances : BalanceGet(fresh)
    \/ \E tx \in TxIds, a \in InitiateAmounts : InitiateWithdrawal(tx, a)
    \/ \E caller \in Callers, id \in 1..MaxTasks : StatusGet(caller, id)
    \/ \E w \in WIds, ev \in {"confirmed", "rejected", "timedOut"} : MonitorEvent(w, ev)
    \/ \E w \in WIds, k \in Kiosks, p \in Pins : Authorize(w, k, p)
    \/ \E w \in WIds : ExpireSweep(w)
    \/ \E w \in WIds : KioskRedeem(w)
    \/ \E w \in WIds, k \in Kiosks, success \in BOOLEAN : KioskCompletion(w, k, success)
    \/ Tick

NextWithdraw ==
    \/ SignIn
    \/ \E fresh \in FreshBalances : BalanceGet(fresh)
    \/ \E a \in Amounts : WithdrawBegin(a)
    \/ \E t \in TIds : WithdrawDecrement(t)
    \/ \E t \in TIds, actuated, responseOk, bodySuccess \in BOOLEAN :
           WithdrawDispense(t, actuated, responseOk, bodySuccess)
    \/ \E t \in TIds : WithdrawComplete(t)
    \/ \E t \in TIds : WithdrawRefund(t)
    \/ \E t \in TIds : WithdrawMarkFailed(t)
    \/ \E t \in TIds : WithdrawThrow(t)

\* the initiate-withdrawal pipeline with completion reports from other kiosks
NextKiosk ==
    \/ NextCoord
    \/ \E w \in WIds, k \in OtherKiosks, success \in BOOLEAN : KioskCompletion(w, k, success)

\* both withdrawal entry points for an account whose wallet holds more than the
\* daily limit
NextLimit ==
    \/ SignIn
    \/ \E fresh \in WalletBalances : BalanceGet(fresh)
    \/ \E tx \in TxIds, a \in LimitAmounts : InitiateWithdrawal(tx, a)
    \/ \E a \in LimitAmounts : WithdrawBegin(a)
    \/ \E t \in TIds : WithdrawDecrement(t)
    \/ \E t \in TIds, actuated, responseOk, bodySuccess \in BOOLEAN :
           WithdrawDispense(t, actuated, responseOk, bodySuccess)
    \/ \E t \in TIds : WithdrawComplete(t)
    \/ \E t \in TIds : WithdrawRefund(t)
    \/ \E t \in TIds : WithdrawMarkFailed(t)
    \/ \E t \in TIds : WithdrawThrow(t)

\* sign-in: nonce endpoint, auth requests from the browser, replayed requests
NextAuth ==
    \/ NonceGet
    \/ \E nonce \in {NoNonce} \cup Nonces, siweValid \in BOOLEAN : AuthPost(nonce, siweValid)
    \/ \E nonce \in Nonces : AuthReplay(nonce)
    \/ \E fresh \in FreshBalances : BalanceGet(fresh)

\* the kiosk frontend
NextApp ==
    \/ ClickStart
    \/ handleAmountSelect
    \/ handleReset
    \/ VerifyStart
    \/ \E ok \in BOOLEAN : VerifyReturn(ok)
    \/ \E result \in {"success", "failure", "offline"} : WithdrawReturn(result)
    \/ \E s \in 1..MaxSessions : TimerFire(s)
    \/ HealthStart
    \/ \E result \in {"ready", "healthy", "degraded", "offline",
                       "throwOffline", "throwOther"} : HealthReturn(result)

\* /api/withdraw with the kiosk's health record changing under it
NextDispatch ==
    \/ NextWithdraw
    \/ \E inventory \in Inventories : KioskHeartbeat(inventory)
    \/ KioskStale

Spec == Init /\ [][Next]_vars
SpecCoord == Init /\ [][NextCoord]_vars
SpecWithdraw == Init /\ [][NextWithdraw]_vars
SpecDispatch == Init /\ [][NextDispatch]_vars
SpecKiosk == Init /\ [][NextKiosk]_vars
SpecLimit == Init /\ [][NextLimit]_vars
SpecAuth == Init /\ [][NextAuth]_vars
SpecApp == Init /\ [][NextApp]_vars

\* the initiate-withdrawal pipeline with its schedule: the wall clock advances
\* and the periodic expiry sweep visits every withdrawal
SpecCoordLive ==
    /\ Init /\ [][NextCoord]_vars
    /\ WF_vars(Tick)
    /\ \A w \in 1..MaxTasks : WF_vars(w \in WIds /\ ExpireSweep(w))

-----------------------------------------------------------------------------
(* Claims *)

RECURSIVE DispensedFor(_, _)
DispensedFor(tx, i) ==
    IF i = 0 THEN 0
    ELSE (IF withdrawals[i].transaction_id = tx THEN dispensed[i] ELSE 0)
         + DispensedFor(tx, i - 1)

RECURSIVE RowsFor(_, _)
RowsFor(tx, i) ==
    IF i = 0 THEN 0
    ELSE (IF withdrawals[i].transaction_id = tx THEN 1 ELSE 0) + RowsFor(tx, i - 1)

C2_SameIdOnRetry ==
    \A tx \in TxIds :
        /\ RowsFor(tx, Len(withdrawals)) <= 1
        /\ getWithdrawalByTx(tx) # 0 =>
             InitiateResponseId(tx, withdrawals[getWithdrawalByTx(tx)].amount)
                 = getWithdrawalByTx(tx)

\* C3: a kiosk report for a withdrawal in a terminal status changes neither the
\* stored status nor the balance.
C3_TerminalReportNoOp ==
    [][\A w \in WIds, k \in Kiosks, success \in BOOLEAN :
          (withdrawals[w].status \in Terminal /\ KioskCompletion(w, k, success))
              => (withdrawals'[w].status = withdrawals[w].status /\ balance' = balance)]_vars

\* C4: a withdrawal becomes completed only from dispensing; in particular a
\* success report for a pending withdrawal does not complete it.
C4_CompletedOnlyFromDispensing ==
    [][\A w \in WIds :
          (withdrawals'[w].status = "completed" /\ withdrawals[w].status # "completed")
              => withdrawals[w].status = "dispensing"]_vars

\* C5: a withdrawal whose amount was reserved ends with an exact balance
\* effect: the amount stays debited if it ended completed, and is released if
\* it ended failed or expired.
C5_ExactBalanceEffect ==
    \A w \in WIds :
        (withdrawals[w].pin_expires_at # 0 /\ withdrawals[w].status \in Terminal)
            => (withdrawals[w].debited <=> withdrawals[w].status = "completed")

\* a withdrawal went through authorization and a kiosk report ended it
C5_Witness ==
    \E w \in WIds : /\ withdrawals[w].pin_expires_at # 0
                    /\ withdrawals[w].status = "completed"
                    /\ withdrawals[w].debited

\* C6: in the /api/withdraw flow a transaction stored as failed has had its
\* refund written: the refund write precedes the write of status failed.
C6_RefundBeforeFailed ==
    \A t \in TIds : transactions[t].status = "failed" => transactions[t].refunded

\* a dispense failed, the balance was refunded, the transaction is failed
C6_Witness ==
    \E t \in TIds : /\ transactions[t].status = "failed"
                    /\ transactions[t].refunded
                    /\ balance = transactions[t].snapshot

\* C7: the stored balance is never negative.
C7_BalanceNonNegative == balance >= 0

\* a reservation and a /api/withdraw decrement have brought the balance to zero
C7_Witness ==
    /\ balance = 0
    /\ \E t \in TIds : transactions[t].pc = "dispense"
    /\ \E w \in WIds : withdrawals[w].debited

\* C8: signing in again as an existing user and reading the balance leave the
\* stored balance unchanged.
C8_BalanceFrame ==
    [][(userExists /\ (SignIn \/ \E fresh \in FreshBalances : BalanceGet(fresh)))
          => balance' = balance]_vars

\* C9: a withdrawal is admitted only if the balance covers its amount plus the
\* amounts of the account's other in-flight withdrawals not yet debited.
C9_AdmissionCoversInFlight ==
    [][Len(withdrawals') > Len(withdrawals)
          => balance >= withdrawals'[Len(withdrawals')].amount
                        + SumAmounts({"pending", "confirmed"}, Len(withdrawals))]_vars

RECURSIVE CompletedSum(_)
CompletedSum(i) ==
    IF i = 0 THEN 0
    ELSE (IF transactions[i].status = "completed" THEN transactions[i].amount ELSE 0)
         + CompletedSum(i - 1)

\* C10: when every /api/withdraw request has finished with its transaction
\* completed or failed, and nothing else wrote the balance, the balance is the
\* initial balance minus the amounts of the completed transactions.
C10_SerializedBalance ==
    (/\ ~otherWrites
     /\ TIds # {}
     /\ \A t \in TIds : /\ transactions[t].pc = "done"
                        /\ transactions[t].status \in {"completed", "failed"})
        => balance = InitialBalance - CompletedSum(Len(transactions))

\* C11: an initiate-withdrawal request for a valid amount that exceeds the
\* balance creates a withdrawal record the caller can see (the response carries
\* its id; the record is stored as failed).
C11_InsufficientFundsRecord ==
    \A tx \in TxIds, a \in InitiateAmounts :
        (userExists /\ a > 0 /\ a <= DailyLimit /\ balance < a)
            => InitiateResponseId(tx, a) # 0

\* C12: a request with a bad amount (missing, not positive, above the limit) or
\* for an unknown account is answered with an error and changes nothing: no
\* withdrawal, no transaction, no monitor, no balance write.
C12_ValidationNoState ==
    [][/\ \A tx \in TxIds, a \in InitiateAmounts :
            ((a <= 0 \/ a > DailyLimit \/ ~userExists) /\ InitiateWithdrawal(tx, a))
                => (InitiateCode(tx, a) # 200 /\ UNCHANGED vars)
       /\ \A a \in Amounts :
            ((a <= 0 \/ a > DailyLimit \/ ~userExists) /\ WithdrawBegin(a))
                => (WithdrawCode(a) # 200 /\ UNCHANGED vars)]_vars

\* both handlers are serving requests (a withdrawal and a transaction exist)
\* in a state where bad amounts are answered 400
C12_Witness ==
    /\ userExists
    /\ Len(withdrawals) > 0 /\ Len(transactions) > 0
    /\ \A a \in {-5000, 0, 60000} :
          InitiateCode("tx_b", a) = 400 /\ WithdrawCode(a) = 400

\* C13: the monitor emits at most one terminal event for a withdrawal, also when
\* initiate-withdrawal was retried for its payment reference: once a watch of
\* the withdrawal has emitted its event, no watch of it is left to emit another.
C13_OneTerminalEvent ==
    [][\A w \in WIds, ev \in {"confirmed", "rejected", "timedOut"} :
          MonitorEvent(w, ev) => watches'[w] = 0]_vars

\* C14: once a withdrawal has left pending (also through a kiosk report that
\* arrived first) its watch produces no further event: the monitor emits events
\* for pending withdrawals only.
C14_NoEventAfterPending ==
    [][\A w \in WIds, ev \in {"confirmed", "rejected", "timedOut"} :
          MonitorEvent(w, ev) => withdrawals[w].status = "pending"]_vars

C16_NoCompletionAfterExpiry ==
    [][\A w \in WIds :
          (withdrawals[w].status = "pin_sent" /\ now >= withdrawals[w].pin_expires_at)
              => withdrawals'[w].status # "completed"]_vars

\* C17: a withdrawal in a terminal status has no stored PIN.
C17_TerminalHasNoPin ==
    \A w \in WIds : withdrawals[w].status \in Terminal => withdrawals[w].pin = NoPin

\* C18: a completion report whose kioskId differs from the kiosk the withdrawal
\* was authorized for changes neither its status nor its recorded kiosk id.
C18_OtherKioskReportNoOp ==
    [][\A w \in WIds, k \in Kiosks \cup OtherKiosks, success \in BOOLEAN :
          (/\ withdrawals[w].status \in {"pin_sent", "dispensing"}
           /\ k # withdrawals[w].kiosk_id
           /\ KioskCompletion(w, k, success))
              => (/\ withdrawals'[w].status = withdrawals[w].status
                  /\ withdrawals'[w].kiosk_id = withdrawals[w].kiosk_id)]_vars

\* C19: a 2xx response from the kiosk whose body does not report success never
\* takes /api/withdraw to its success branch (the branch that stores completed).
C19_ExplicitSuccessOnly ==
    [][\A t \in TIds, actuated \in BOOLEAN, responseOk \in BOOLEAN :
          WithdrawDispense(t, actuated, responseOk, FALSE)
              => transactions'[t].pc # "complete"]_vars

\* C20: whenever the cloud sends a dispense request to the kiosk, the kiosk is
\* online and its inventory covers the requested amount.
C20_DispatchToHealthyKiosk ==
    [][\A t \in TIds, actuated, responseOk, bodySuccess \in BOOLEAN :
          WithdrawDispense(t, actuated, responseOk, bodySuccess)
              => (kioskHealth.online /\ kioskHealth.inventory >= transactions[t].amount)]_vars

RECURSIVE AcceptedTransactions(_)
AcceptedTransactions(i) ==
    IF i = 0 THEN 0 ELSE transactions[i].amount + AcceptedTransactions(i - 1)

\* C21: the amounts of all withdrawals accepted for the user within one day
\* (withdrawal records created by initiate-withdrawal, transactions created by
\* withdraw) never add up to more than the daily limit.
C21_DailyLimitOnSum ==
    SumAmounts(Status, Len(withdrawals)) + AcceptedTransactions(Len(transactions))
        <= DailyLimit

RECURSIVE CompletedDispensed(_)
CompletedDispensed(i) ==
    IF i = 0 THEN 0
    ELSE (IF transactions[i].status = "completed" /\ transactions[i].actuated > 0
          THEN transactions[i].amount ELSE 0) + CompletedDispensed(i - 1)

\* C23: the cash dispensed through completed /api/withdraw requests never
\* exceeds the balance the user had before them, whatever the interleaving.
C23_DispensedWithinBalance ==
    ~otherWrites => CompletedDispensed(Len(transactions)) <= InitialBalance

\* C24: in the /api/withdraw flow a transaction that ended failed with its
\* balance refunded had no cash dispensed for it.
C24_RefundedMeansNotDispensed ==
    \A t \in TIds :
        (transactions[t].status = "failed" /\ transactions[t].refunded)
            => transactions[t].actuated = 0

\* C25: a /api/withdraw request that created a transaction and has returned has
\* left it completed or failed, never processing.
C25_RequestEndsTerminal ==
    \A t \in TIds :
        transactions[t].pc = "done" => transactions[t].status \in {"completed", "failed"}

C27_NonceSingleUse ==
    \A n \in Nonces : auth.accepted[n] <= 1

\* C22: on the welcome screen a click on the start control calls onStart exactly
\* once, whatever status has been supplied to the screen (also none).
C22_StartCallsOnStart ==
    app.state = "welcome" => OnStartCalls(app.status) = 1

\* C28: the auto-reset timer armed at the completion of a transaction does not
\* alter a later transaction: when it fires while another session is current,
\* it changes neither the state nor the session.
C28_TimerSparesLaterSession ==
    [][\A s \in 1..MaxSessions :
          (TimerFire(s) /\ app.session \notin {0, s})
              => (app'.state = app.state /\ app'.session = app.session)]_vars

\* C29: the withdraw call is issued only when the cloud accepted the session's
\* verification, the app enters dispensing only from processing, and a failed
\* verification leads to the error state without a withdraw call.
C29_WithdrawOnlyAfterVerification ==
    [][/\ (app'.withdraw # 0 /\ app'.withdraw # app.withdraw)
            => (VerifyReturn(TRUE) /\ app'.withdraw = app.verify)
       /\ (app'.state = "dispensing" /\ app.state # "dispensing")
            => app.state = "processing"
       /\ (VerifyReturn(FALSE) /\ ~VerifyReturn(TRUE))
            => (app'.state = "error" /\ app'.withdraw = app.withdraw)]_vars

\* C30: the periodic health check never moves the app out of processing or
\* dispensing.
C30_HealthCheckSparesTransaction ==
    [][\A result \in {"ready", "healthy", "degraded", "offline",
                      "throwOffline", "throwOther"} :
          (HealthReturn(result) /\ app.state \in {"processing", "dispensing"})
              => app'.state = app.state]_vars

====
